---- MODULE Spec2Model ----
(***************************************************************************)
(* Model of the "safe" module of @ntangled/kit: x (execute), w (wrap) and  *)
(* the earlier px / rx / pw / rw utilities, running on a JavaScript host   *)
(* with promises and a FIFO microtask queue.                               *)
(*                                                                         *)
(* JavaScript values are pairs <<tag, n>>.  Objects live in heaps and are  *)
(* named by their index, so reference identity is equality of the pair.    *)
(***************************************************************************)
EXTENDS Integers, Sequences, FiniteSets

VARIABLES promises, tuples, errors, jobs, calls, fired

vars == <<promises, tuples, errors, jobs, calls, fired>>

\* ---------------------------------------------------------------- bounds
MaxCalls == 2
MaxComposeCalls == 2
MaxLegacyCalls == 1

\* ---------------------------------------------------------------- values
Null == <<"null", 0>>
Undef == <<"undefined", 0>>
Prim(n) == <<"prim", n>>
Obj(n) == <<"obj", n>>
ErrRef(n) == <<"err", n>>
TupleRef(n) == <<"tuple", n>>
PromiseRef(n) == <<"promise", n>>

\* !!v of JavaScript
Truthy(v) == ~(v = Null \/ v = Undef \/ v = Prim(0))

\* typeof v === 'object' && v !== null
IsObject(v) == v[1] \in {"obj", "err", "tuple", "promise"}

\* result && typeof result.then === 'function'
IsThenable(v) == Truthy(v) /\ v[1] = "promise"

\* values the callbacks of the model return, raise, resolve or reject with
UserVals == {Null, Undef, Prim(5), Obj(1)}

\* argument lists: no argument (the parameter reads undefined), null, or
\* an object
ParamLists == {<<>>, <<Null>>, <<Obj(1)>>}

\* what a callback does with its value
Kinds == {"return", "throw", "resolve", "reject", "resolved", "rejected"}
AsyncKinds == {"resolve", "reject", "resolved", "rejected"}

\* ------------------------------------------------------------- the heaps
Heap == [promises |-> promises, tuples |-> tuples, errors |-> errors,
         jobs |-> jobs, fired |-> fired]

NewPromise(h, st, v, plan) ==
    [h |-> [h EXCEPT !.promises = Append(@, [state |-> st, val |-> v,
                                              reactions |-> <<>>, plan |-> plan])],
     v |-> PromiseRef(Len(h.promises) + 1)]

\* a promise settles once: its reactions become microtasks, in order
SettlePromise(h, p, st, v) ==
    LET rs == h.promises[p].reactions
        js == [k \in 1..Len(rs) |-> [reaction |-> rs[k], state |-> st, arg |-> v]]
    IN  IF h.promises[p].state # "pending" THEN h
        ELSE [h EXCEPT !.promises[p] = [@ EXCEPT !.state = st, !.val = v,
                                                 !.reactions = <<>>],
                       !.jobs = @ \o js]

\* registering a reaction on p: kept while p is pending, a microtask at once
\* when p is already settled
Attach(h, p, rc) ==
    LET src == h.promises[p]
    IN  IF src.state = "pending"
        THEN [h EXCEPT !.promises[p].reactions = Append(@, rc)]
        ELSE [h EXCEPT !.jobs = Append(@, [reaction |-> rc, state |-> src.state,
                                           arg |-> src.val])]

\* p.then(onF, onR): a new promise, settled by the handler's outcome
Then(h, p, onF, onR, own) ==
    LET n == NewPromise(h, "pending", Undef, "none")
    IN  [h |-> Attach(n.h, p, [onF |-> onF, onR |-> onR, target |-> n.v[2],
                               own |-> own]),
         v |-> n.v]

\* await v inside an async function whose promise is target: the function
\* resumes in a microtask, with v's settlement or with v itself
Await(h, v, onF, onR, target, own) ==
    LET rc == [onF |-> onF, onR |-> onR, target |-> target, own |-> own]
    IN  IF v[1] = "promise" THEN Attach(h, v[2], rc)
        ELSE [h EXCEPT !.jobs = Append(@, [reaction |-> rc, state |-> "fulfilled",
                                           arg |-> v])]

\* new NullError(): message 'null', name 'NullError', prototype NullError
NullError(h) ==
    [h |-> [h EXCEPT !.errors = Append(@, [cls |-> "NullError",
                                            message |-> "null",
                                            name |-> "NullError"])],
     v |-> ErrRef(Len(h.errors) + 1)]

\* new Error('null')
PlainError(h) ==
    [h |-> [h EXCEPT !.errors = Append(@, [cls |-> "Error",
                                            message |-> "null",
                                            name |-> "Error"])],
     v |-> ErrRef(Len(h.errors) + 1)]

\* one array kept by the module and filled again by every invocation
MkTuple_pooled(h, fault, value, own, path) ==
    [h |-> [h EXCEPT !.tuples = IF @ = <<>>
                                THEN <<[fault |-> fault, value |-> value]>>
                                ELSE [@ EXCEPT ![1] = [fault |-> fault,
                                                       value |-> value]],
                     !.fired[own.call] = Append(@, [fn |-> own.fn,
                                                    depth |-> own.depth,
                                                    path |-> path,
                                                    tuple |-> 1])],
     how |-> "return",
     v |-> TupleRef(1)]

\* the array literal [fault, value]; the path that built it is recorded
\* for the invocation that owns it
MkTuple(h, fault, value, own, path) ==
    LET id == Len(h.tuples) + 1
    IN  [h |-> [h EXCEPT !.tuples = Append(@, [fault |-> fault, value |-> value]),
                         !.fired[own.call] = Append(@, [fn |-> own.fn,
                                                        depth |-> own.depth,
                                                        path |-> path,
                                                        tuple |-> id])],
         how |-> "return",
         v |-> TupleRef(id)]

\* ---------------------------------------------------------- the callback
\* A caller-supplied callback: works on a captured constant (a thunk) or on
\* its first parameter, and returns it, raises it, or returns a promise
\* that resolves or rejects with it (now, or later on the event loop).
CbValue(cb, params) ==
    IF cb.use = "const" THEN cb.c
    ELSE IF Len(params) >= 1 THEN params[1] ELSE Undef

Callback(h, cb, params) ==
    LET v == CbValue(cb, params)
    IN  CASE cb.kind = "return" -> [h |-> h, how |-> "return", v |-> v]
          [] cb.kind = "throw" -> [h |-> h, how |-> "throw", v |-> v]
          [] cb.kind = "resolve" ->
                LET n == NewPromise(h, "pending", v, "fulfilled")
                IN  [h |-> n.h, how |-> "return", v |-> n.v]
          [] cb.kind = "reject" ->
                LET n == NewPromise(h, "pending", v, "rejected")
                IN  [h |-> n.h, how |-> "return", v |-> n.v]
          [] cb.kind = "resolved" ->
                LET n == NewPromise(h, "fulfilled", v, "none")
                IN  [h |-> n.h, how |-> "return", v |-> n.v]
          [] cb.kind = "rejected" ->
                LET n == NewPromise(h, "rejected", v, "none")
                IN  [h |-> n.h, how |-> "return", v |-> n.v]

\* ------------------------------------------------------- safe.ts: w and x
\* w(callback): the closure keeps only the callback
W(fn) == [fn EXCEPT !.depth = @ + 1]

\* the slots of the success tuple swapped
W_then_swapped(h, value, own) == MkTuple(h, value, Null, own, "asyncSuccess")

\* .then((value) => [null, value]) of the callable returned by w
W_then(h, value, own) == MkTuple(h, Null, value, own, "asyncSuccess")

\* .catch((error) => ...) of the callable returned by w
W_catch(h, error, own) ==
    IF error = Null
    THEN LET e == NullError(h) IN MkTuple(e.h, e.v, Null, own, "asyncFailure")
    ELSE MkTuple(h, error, Null, own, "asyncFailure")

\* .then((value) => [null, value]) of x
X_then(h, value, own) == MkTuple(h, Null, value, own, "asyncSuccess")

\* the rejection reason put in the tuple as it comes, null included
X_catch_raw(h, error, own) == MkTuple(h, error, Null, own, "asyncFailure")

\* .catch((error) => ...) of x
X_catch(h, error, own) ==
    IF error = Null
    THEN LET e == NullError(h) IN MkTuple(e.h, e.v, Null, own, "asyncFailure")
    ELSE MkTuple(h, error, Null, own, "asyncFailure")

RECURSIVE CallFn(_, _, _, _)

\* every fault replaced by a NullError instead of null only
WrappedCall_wrapAll(h, callback, params, own) ==
    LET r == CallFn(h, callback, params, own.call)
    IN  IF r.how = "throw"
        THEN LET e == NullError(r.h)
             IN  MkTuple(e.h, e.v, Null, own, "syncFailure")
        ELSE IF IsThenable(r.v)
             THEN LET t == Then(r.h, r.v[2], "W_then", "none", own)
                      c == Then(t.h, t.v[2], "none", "W_catch", own)
                  IN  [h |-> c.h, how |-> "return", v |-> c.v]
             ELSE MkTuple(r.h, Null, r.v, own, "syncSuccess")

\* a callback result that is already a tuple handed on as it is
WrappedCall_flat(h, callback, params, own) ==
    LET r == CallFn(h, callback, params, own.call)
    IN  IF r.how = "throw"
        THEN IF r.v = Null
             THEN LET e == NullError(r.h)
                  IN  MkTuple(e.h, e.v, Null, own, "syncFailure")
             ELSE MkTuple(r.h, r.v, Null, own, "syncFailure")
        ELSE IF IsThenable(r.v)
             THEN LET t == Then(r.h, r.v[2], "W_then", "none", own)
                      c == Then(t.h, t.v[2], "none", "W_catch", own)
                  IN  [h |-> c.h, how |-> "return", v |-> c.v]
             ELSE IF r.v[1] = "tuple" THEN r
             ELSE MkTuple(r.h, Null, r.v, own, "syncSuccess")

\* the synchronous catch without the null test
WrappedCall_rawCatch(h, callback, params, own) ==
    LET r == CallFn(h, callback, params, own.call)
    IN  IF r.how = "throw"
        THEN MkTuple(r.h, r.v, Null, own, "syncFailure")
        ELSE IF IsThenable(r.v)
             THEN LET t == Then(r.h, r.v[2], "W_then", "none", own)
                      c == Then(t.h, t.v[2], "none", "W_catch", own)
                  IN  [h |-> c.h, how |-> "return", v |-> c.v]
             ELSE MkTuple(r.h, Null, r.v, own, "syncSuccess")

\* (...params) => { try { ... } catch (error) { ... } } returned by w(callback)
WrappedCall(h, callback, params, own) ==
    LET r == CallFn(h, callback, params, own.call)
    IN  IF r.how = "throw"
        THEN IF r.v = Null
             THEN LET e == NullError(r.h)
                  IN  MkTuple(e.h, e.v, Null, own, "syncFailure")
             ELSE MkTuple(r.h, r.v, Null, own, "syncFailure")
        ELSE IF IsThenable(r.v)
             THEN LET t == Then(r.h, r.v[2], "W_then", "none", own)
                      c == Then(t.h, t.v[2], "none", "W_catch", own)
                  IN  [h |-> c.h, how |-> "return", v |-> c.v]
             ELSE MkTuple(r.h, Null, r.v, own, "syncSuccess")

\* calling a callable: the user's callback, or a closure made by w
CallFn(h, fn, params, call) ==
    IF fn.depth = 0 THEN Callback(h, fn, params)
    ELSE WrappedCall(h, [fn EXCEPT !.depth = @ - 1], params,
                     [call |-> call, fn |-> "w", depth |-> fn.depth])

\* the chain without its .catch
X_noCatch(h, callback, params, own) ==
    LET r == CallFn(h, callback, params, own.call)
    IN  IF r.how = "throw"
        THEN IF r.v = Null
             THEN LET e == NullError(r.h)
                  IN  MkTuple(e.h, e.v, Null, own, "syncFailure")
             ELSE MkTuple(r.h, r.v, Null, own, "syncFailure")
        ELSE IF IsThenable(r.v)
             THEN LET t == Then(r.h, r.v[2], "X_then", "none", own)
                  IN  [h |-> t.h, how |-> "return", v |-> t.v]
             ELSE MkTuple(r.h, Null, r.v, own, "syncSuccess")

\* the promise test left out: a promise is a result like any other
X_noDetect(h, callback, params, own) ==
    LET r == CallFn(h, callback, params, own.call)
    IN  IF r.how = "throw"
        THEN IF r.v = Null
             THEN LET e == NullError(r.h)
                  IN  MkTuple(e.h, e.v, Null, own, "syncFailure")
             ELSE MkTuple(r.h, r.v, Null, own, "syncFailure")
        ELSE MkTuple(r.h, Null, r.v, own, "syncSuccess")

\* the return in front of the chain left out: the chain is built and the
\* synchronous tuple is returned as well
X_noReturn(h, callback, params, own) ==
    LET r == CallFn(h, callback, params, own.call)
    IN  IF r.how = "throw"
        THEN IF r.v = Null
             THEN LET e == NullError(r.h)
                  IN  MkTuple(e.h, e.v, Null, own, "syncFailure")
             ELSE MkTuple(r.h, r.v, Null, own, "syncFailure")
        ELSE IF IsThenable(r.v)
             THEN LET t == Then(r.h, r.v[2], "X_then", "none", own)
                      c == Then(t.h, t.v[2], "none", "X_catch", own)
                  IN  MkTuple(c.h, Null, r.v, own, "syncSuccess")
             ELSE MkTuple(r.h, Null, r.v, own, "syncSuccess")

\* x(callback, ...params)
X(h, callback, params, own) ==
    LET r == CallFn(h, callback, params, own.call)
    IN  IF r.how = "throw"
        THEN IF r.v = Null
             THEN LET e == NullError(r.h)
                  IN  MkTuple(e.h, e.v, Null, own, "syncFailure")
             ELSE MkTuple(r.h, r.v, Null, own, "syncFailure")
        ELSE IF IsThenable(r.v)
             THEN LET t == Then(r.h, r.v[2], "X_then", "none", own)
                      c == Then(t.h, t.v[2], "none", "X_catch", own)
                  IN  [h |-> c.h, how |-> "return", v |-> c.v]
             ELSE MkTuple(r.h, Null, r.v, own, "syncSuccess")

\* ------------------------------------- the earlier px / rx / pw / rw, I
\* return [null, result] after the await of px
Px1_resume(h, value, own) == MkTuple(h, Null, value, own, "asyncSuccess")

\* catch (error) of px
Px1_catch(h, error, own, path) ==
    IF error = Null
    THEN LET e == PlainError(h) IN MkTuple(e.h, e.v, Null, own, path)
    ELSE MkTuple(h, error, Null, own, path)

\* px(callback): an async function, so the caller always gets a promise
Px1(h, callback, own) ==
    LET r == Callback(h, callback, <<>>)
        n == NewPromise(r.h, "pending", Undef, "none")
    IN  IF r.how = "throw"
        THEN LET t == Px1_catch(n.h, r.v, own, "syncFailure")
             IN  [h |-> SettlePromise(t.h, n.v[2], "fulfilled", t.v),
                  how |-> "return", v |-> n.v]
        ELSE [h |-> Await(n.h, r.v, "Px1_resume", "Px1_catch", n.v[2], own),
              how |-> "return", v |-> n.v]

\* rx(callback)
Rx1(h, callback, own) ==
    LET r == Callback(h, callback, <<>>)
    IN  IF r.how = "throw"
        THEN IF r.v = Null
             THEN LET e == PlainError(r.h)
                  IN  MkTuple(e.h, e.v, Null, own, "syncFailure")
             ELSE MkTuple(r.h, r.v, Null, own, "syncFailure")
        ELSE MkTuple(r.h, Null, r.v, own, "syncSuccess")

\* return [null, result] after the await of the callable made by pw
Pw1_resume(h, value, own) == MkTuple(h, Null, value, own, "asyncSuccess")

\* catch (error) of the callable made by pw
Pw1_catch(h, error, own, path) ==
    IF error = Null
    THEN LET e == PlainError(h) IN MkTuple(e.h, e.v, Null, own, path)
    ELSE MkTuple(h, error, Null, own, path)

\* pw(callback)(...params)
Pw1(h, callback, params, own) ==
    LET r == Callback(h, callback, params)
        n == NewPromise(r.h, "pending", Undef, "none")
    IN  IF r.how = "throw"
        THEN LET t == Pw1_catch(n.h, r.v, own, "syncFailure")
             IN  [h |-> SettlePromise(t.h, n.v[2], "fulfilled", t.v),
                  how |-> "return", v |-> n.v]
        ELSE [h |-> Await(n.h, r.v, "Pw1_resume", "Pw1_catch", n.v[2], own),
              how |-> "return", v |-> n.v]

\* rw(callback)(...params)
Rw1(h, callback, params, own) ==
    LET r == Callback(h, callback, params)
    IN  IF r.how = "throw"
        THEN IF r.v = Null
             THEN LET e == PlainError(r.h)
                  IN  MkTuple(e.h, e.v, Null, own, "syncFailure")
             ELSE MkTuple(r.h, r.v, Null, own, "syncFailure")
        ELSE MkTuple(r.h, Null, r.v, own, "syncSuccess")

\* ------------------------------------ the earlier px / rx / pw / rw, II
\* return [null, result] after the await of px
Px2_resume(h, value, own) == MkTuple(h, Null, value, own, "asyncSuccess")

\* catch (error) of px
Px2_catch(h, error, own, path) ==
    IF error = Null
    THEN LET e == NullError(h) IN MkTuple(e.h, e.v, Null, own, path)
    ELSE MkTuple(h, error, Null, own, path)

\* px(callback): an async function, so the caller always gets a promise
Px2(h, callback, own) ==
    LET r == Callback(h, callback, <<>>)
        n == NewPromise(r.h, "pending", Undef, "none")
    IN  IF r.how = "throw"
        THEN LET t == Px2_catch(n.h, r.v, own, "syncFailure")
             IN  [h |-> SettlePromise(t.h, n.v[2], "fulfilled", t.v),
                  how |-> "return", v |-> n.v]
        ELSE [h |-> Await(n.h, r.v, "Px2_resume", "Px2_catch", n.v[2], own),
              how |-> "return", v |-> n.v]

\* rx(callback)
Rx2(h, callback, own) ==
    LET r == Callback(h, callback, <<>>)
    IN  IF r.how = "throw"
        THEN IF r.v = Null
             THEN LET e == NullError(r.h)
                  IN  MkTuple(e.h, e.v, Null, own, "syncFailure")
             ELSE MkTuple(r.h, r.v, Null, own, "syncFailure")
        ELSE MkTuple(r.h, Null, r.v, own, "syncSuccess")

\* return [null, result] after the await of the callable made by pw
Pw2_resume(h, value, own) == MkTuple(h, Null, value, own, "asyncSuccess")

\* catch (error) of the callable made by pw
Pw2_catch(h, error, own, path) ==
    IF error = Null
    THEN LET e == NullError(h) IN MkTuple(e.h, e.v, Null, own, path)
    ELSE MkTuple(h, error, Null, own, path)

\* pw(callback)(...params)
Pw2(h, callback, params, own) ==
    LET r == Callback(h, callback, params)
        n == NewPromise(r.h, "pending", Undef, "none")
    IN  IF r.how = "throw"
        THEN LET t == Pw2_catch(n.h, r.v, own, "syncFailure")
             IN  [h |-> SettlePromise(t.h, n.v[2], "fulfilled", t.v),
                  how |-> "return", v |-> n.v]
        ELSE [h |-> Await(n.h, r.v, "Pw2_resume", "Pw2_catch", n.v[2], own),
              how |-> "return", v |-> n.v]

\* rw(callback)(...params)
Rw2(h, callback, params, own) ==
    LET r == Callback(h, callback, params)
    IN  IF r.how = "throw"
        THEN IF r.v = Null
             THEN LET e == NullError(r.h)
                  IN  MkTuple(e.h, e.v, Null, own, "syncFailure")
             ELSE MkTuple(r.h, r.v, Null, own, "syncFailure")
        ELSE MkTuple(r.h, Null, r.v, own, "syncSuccess")

\* ---------------------------------------------------------- the handlers
Handler(name, h, arg, own) ==
    CASE name = "W_then" -> W_then(h, arg, own)
      [] name = "W_catch" -> W_catch(h, arg, own)
      [] name = "X_then" -> X_then(h, arg, own)
      [] name = "X_catch" -> X_catch(h, arg, own)
      [] name = "Px1_resume" -> Px1_resume(h, arg, own)
      [] name = "Px1_catch" -> Px1_catch(h, arg, own, "asyncFailure")
      [] name = "Pw1_resume" -> Pw1_resume(h, arg, own)
      [] name = "Pw1_catch" -> Pw1_catch(h, arg, own, "asyncFailure")
      [] name = "Px2_resume" -> Px2_resume(h, arg, own)
      [] name = "Px2_catch" -> Px2_catch(h, arg, own, "asyncFailure")
      [] name = "Pw2_resume" -> Pw2_resume(h, arg, own)
      [] name = "Pw2_catch" -> Pw2_catch(h, arg, own, "asyncFailure")

\* one microtask: run the reaction's handler and settle the derived promise;
\* without a handler for the settled state, the state passes through
RunReaction(h, j) ==
    LET name == IF j.state = "fulfilled" THEN j.reaction.onF ELSE j.reaction.onR
    IN  IF name = "none"
        THEN SettlePromise(h, j.reaction.target, j.state, j.arg)
        ELSE LET r == Handler(name, h, j.arg, j.reaction.own)
             IN  SettlePromise(r.h, j.reaction.target,
                               IF r.how = "return" THEN "fulfilled" ELSE "rejected",
                               r.v)

\* ------------------------------------------------------------ the actions
Commit(h) ==
    /\ promises' = h.promises
    /\ tuples' = h.tuples
    /\ errors' = h.errors
    /\ jobs' = h.jobs

Started(api, ver, cb, params, r) ==
    /\ Commit(r.h)
    /\ fired' = r.h.fired
    /\ calls' = Append(calls, [api |-> api, ver |-> ver, cb |-> cb,
                               params |-> params, how |-> r.how, ret |-> r.v,
                               cbp |-> IF cb.kind \in AsyncKinds
                                       THEN Len(promises) + 1 ELSE 0])

Begin == [Heap EXCEPT !.fired = Append(@, <<>>)]

UserFn(kind) == [kind |-> kind, use |-> "arg", c |-> Undef, depth |-> 0]

\* const r = x(f, ...params)
CallX ==
    /\ Len(calls) < MaxCalls
    /\ \E kind \in Kinds, params \in ParamLists :
          Started("x", 0, UserFn(kind), params,
                  X(Begin, UserFn(kind), params,
                    [call |-> Len(calls) + 1, fn |-> "x", depth |-> 0]))

\* const r = w(f)(...params)
CallW ==
    /\ Len(calls) < MaxCalls
    /\ \E kind \in Kinds, params \in ParamLists :
          Started("w", 0, UserFn(kind), params,
                  CallFn(Begin, W(UserFn(kind)), params, Len(calls) + 1))

\* const r = w(w(f))(...params)
CallWW ==
    /\ Len(calls) < MaxComposeCalls
    /\ \E kind \in Kinds, params \in ParamLists :
          Started("ww", 0, UserFn(kind), params,
                  CallFn(Begin, W(W(UserFn(kind))), params, Len(calls) + 1))

Thunk(kind, c) == [kind |-> kind, use |-> "const", c |-> c, depth |-> 0]

LegacyOwn(fn) == [call |-> Len(calls) + 1, fn |-> fn, depth |-> 0]

\* const r = px(() => ...)
CallPx ==
    /\ Len(calls) < MaxLegacyCalls
    /\ \E kind \in Kinds, c \in UserVals, ver \in {1, 2} :
          Started("px", ver, Thunk(kind, c), <<>>,
                  IF ver = 1 THEN Px1(Begin, Thunk(kind, c), LegacyOwn("px"))
                  ELSE Px2(Begin, Thunk(kind, c), LegacyOwn("px")))

\* const r = rx(() => ...)
CallRx ==
    /\ Len(calls) < MaxLegacyCalls
    /\ \E kind \in Kinds, c \in UserVals, ver \in {1, 2} :
          Started("rx", ver, Thunk(kind, c), <<>>,
                  IF ver = 1 THEN Rx1(Begin, Thunk(kind, c), LegacyOwn("rx"))
                  ELSE Rx2(Begin, Thunk(kind, c), LegacyOwn("rx")))

\* const r = pw(f)(...params)
CallPw ==
    /\ Len(calls) < MaxLegacyCalls
    /\ \E kind \in Kinds, params \in ParamLists, ver \in {1, 2} :
          Started("pw", ver, UserFn(kind), params,
                  IF ver = 1 THEN Pw1(Begin, UserFn(kind), params, LegacyOwn("pw"))
                  ELSE Pw2(Begin, UserFn(kind), params, LegacyOwn("pw")))

\* const r = rw(f)(...params)
CallRw ==
    /\ Len(calls) < MaxLegacyCalls
    /\ \E kind \in Kinds, params \in ParamLists, ver \in {1, 2} :
          Started("rw", ver, UserFn(kind), params,
                  IF ver = 1 THEN Rw1(Begin, UserFn(kind), params, LegacyOwn("rw"))
                  ELSE Rw2(Begin, UserFn(kind), params, LegacyOwn("rw")))

\* the callback's own asynchronous work completes
Settle ==
    \E p \in 1..Len(promises) :
        /\ promises[p].state = "pending"
        /\ promises[p].plan # "none"
        /\ Commit(SettlePromise(Heap, p, promises[p].plan, promises[p].val))
        /\ UNCHANGED <<calls, fired>>

\* the host runs the oldest microtask
RunJob ==
    /\ jobs # <<>>
    /\ LET h == RunReaction([Heap EXCEPT !.jobs = Tail(@)], Head(jobs))
       IN  Commit(h) /\ fired' = h.fired
    /\ UNCHANGED calls

Init ==
    /\ promises = <<>>
    /\ tuples = <<>>
    /\ errors = <<>>
    /\ jobs = <<>>
    /\ calls = <<>>
    /\ fired = <<>>

Next == CallX \/ CallW \/ Settle \/ RunJob

Spec == Init /\ [][Next]_vars

\* the composition w(w(f)), one invocation at a time
NextCompose == CallWW \/ Settle \/ RunJob

SpecCompose == Init /\ [][NextCompose]_vars

\* the px / rx / pw / rw utilities
NextLegacy == CallPx \/ CallRx \/ CallPw \/ CallRw \/ Settle \/ RunJob

SpecLegacy == Init /\ [][NextLegacy]_vars

\* ------------------------------------------------------- reading a state
CallIds == 1..Len(calls)

\* the invocations of x and of callables returned by w
SafeCalls == {i \in CallIds : calls[i].api \in {"x", "w"}}

\* the value the callback of invocation i works on
CallValue(i) == CbValue(calls[i].cb, calls[i].params)

Succeeds(i) == calls[i].cb.kind \in {"return", "resolve", "resolved"}
Fails(i) == calls[i].cb.kind \in {"throw", "reject", "rejected"}
IsAsync(i) == calls[i].cb.kind \in AsyncKinds

\* the caller holds the Outcome Tuple of invocation i: it was returned, or
\* the returned promise has resolved
HasOutcome(i) ==
    \/ calls[i].how = "return" /\ calls[i].ret[1] = "tuple"
    \/ /\ calls[i].how = "return" /\ calls[i].ret[1] = "promise"
       /\ promises[calls[i].ret[2]].state = "fulfilled"
       /\ promises[calls[i].ret[2]].val[1] = "tuple"

OutcomeRef(i) ==
    IF calls[i].ret[1] = "tuple" THEN calls[i].ret
    ELSE promises[calls[i].ret[2]].val

Outcome(i) == tuples[OutcomeRef(i)[2]]

IsNullError(v) ==
    /\ v[1] = "err"
    /\ errors[v[2]].cls = "NullError"
    /\ errors[v[2]].message = "null"

\* ------------------------------------------------------------------- C1
\* C1: x never raises to its caller and never returns a promise that
\* rejects: what it returns is an Outcome Tuple, or a promise that is
\* pending or resolved to an Outcome Tuple, whatever the callback does.
NoRaiseEscapes ==
    \A i \in CallIds :
        calls[i].api = "x" =>
            /\ calls[i].how = "return"
            /\ \/ calls[i].ret[1] = "tuple"
               \/ /\ calls[i].ret[1] = "promise"
                  /\ promises[calls[i].ret[2]].state # "rejected"
                  /\ promises[calls[i].ret[2]].state = "fulfilled"
                        => promises[calls[i].ret[2]].val[1] = "tuple"

\* an x whose callback's promise rejected with null has resolved
NoRaiseEscapesWitness ==
    \E i \in CallIds :
        /\ calls[i].api = "x" /\ calls[i].cb.kind = "reject"
        /\ CallValue(i) = Null
        /\ HasOutcome(i)

\* ------------------------------------------------------------------- C2
\* C2 as stated: every Outcome Tuple of x or of a wrapped callable has
\* exactly one populated slot, never both null and never both non-null.
MutualExclusivity ==
    \A i \in SafeCalls :
        HasOutcome(i) =>
            /\ \/ Outcome(i).fault = Null /\ Outcome(i).value = CallValue(i)
               \/ Outcome(i).fault # Null /\ Outcome(i).value = Null
            /\ ~(Outcome(i).fault = Null /\ Outcome(i).value = Null)
            /\ ~(Outcome(i).fault # Null /\ Outcome(i).value # Null)

\* C2 amended: on success fault is null and value is the callback's result,
\* on failure fault is not null and value is null; never are both slots
\* non-null, and both are null exactly when the callback's result is null.
ExclusiveSlots ==
    \A i \in SafeCalls :
        HasOutcome(i) =>
            /\ Succeeds(i) => Outcome(i).fault = Null
                              /\ Outcome(i).value = CallValue(i)
            /\ Fails(i) => Outcome(i).fault # Null /\ Outcome(i).value = Null
            /\ ~(Outcome(i).fault # Null /\ Outcome(i).value # Null)
            /\ (Outcome(i).fault = Null /\ Outcome(i).value = Null)
                  <=> (Succeeds(i) /\ CallValue(i) = Null)

\* a callback that resolved with null: the tuple is [null, null]
ExclusiveSlotsWitness ==
    \E i \in SafeCalls :
        /\ calls[i].cb.kind = "resolve" /\ CallValue(i) = Null
        /\ HasOutcome(i)
        /\ Outcome(i).fault = Null /\ Outcome(i).value = Null

\* ------------------------------------------------------------------- C3
\* C3: on every failure path the fault slot holds an actual non-null
\* object, whatever was raised or rejected, so that a test of the fault
\* slot detects the failure.
FaultIsObject ==
    \A i \in SafeCalls :
        (Fails(i) /\ HasOutcome(i)) =>
            IsObject(Outcome(i).fault) /\ Truthy(Outcome(i).fault)

\* ------------------------------------------------------------------- C4
\* the fault a null-raising invocation must end with
NullFailing(i) == Fails(i) /\ CallValue(i) = Null

\* C4: when the callback of x or of a wrapped callable raises null, or its
\* promise rejects with null, the fault slot is a NullError with message
\* "null" built for this invocation alone, and the value slot is null.
SentinelNormalization ==
    \A i \in SafeCalls :
        (NullFailing(i) /\ HasOutcome(i)) =>
            /\ IsNullError(Outcome(i).fault)
            /\ Outcome(i).value = Null
            /\ \A j \in SafeCalls :
                  (j # i /\ HasOutcome(j)) => Outcome(j).fault # Outcome(i).fault

\* a synchronous and an asynchronous null failure, both with their tuples
SentinelNormalizationWitness ==
    \E i, j \in SafeCalls :
        /\ calls[i].cb.kind = "throw" /\ calls[j].cb.kind \in {"reject", "rejected"}
        /\ NullFailing(i) /\ NullFailing(j)
        /\ HasOutcome(i) /\ HasOutcome(j)

\* ------------------------------------------------------------------- C5
\* C5: when the callback raises, or its promise rejects with, a value e
\* that is not null, the fault slot is e itself, for x and for wrapped
\* callables, on the synchronous and the asynchronous failure path.
PassThroughIdentity ==
    \A i \in SafeCalls :
        (Fails(i) /\ CallValue(i) # Null /\ HasOutcome(i)) =>
            Outcome(i).fault = CallValue(i)

\* a wrapped callable raised the object and an x saw it rejected
PassThroughIdentityWitness ==
    \E i, j \in SafeCalls :
        /\ calls[i].api = "w" /\ calls[i].cb.kind = "throw"
        /\ calls[j].api = "x" /\ calls[j].cb.kind = "reject"
        /\ CallValue(i) = Obj(1) /\ CallValue(j) = Obj(1)
        /\ HasOutcome(i) /\ HasOutcome(j)

\* ------------------------------------------------------------------- C6
\* what x hands back, by the callback's outcome shape
TransparentShape ==
    \A i \in CallIds :
        calls[i].api = "x" =>
            /\ calls[i].cb.kind = "return" =>
                  /\ calls[i].ret[1] = "tuple"
                  /\ Outcome(i) = [fault |-> Null, value |-> CallValue(i)]
            /\ calls[i].cb.kind = "throw" =>
                  /\ calls[i].ret[1] = "tuple"
                  /\ Outcome(i).value = Null
                  /\ Outcome(i).fault # Null
            /\ IsAsync(i) =>
                  /\ calls[i].ret[1] = "promise"
                  /\ (HasOutcome(i) /\ Succeeds(i)) =>
                        /\ promises[calls[i].cbp].state = "fulfilled"
                        /\ Outcome(i) = [fault |-> Null,
                                         value |-> promises[calls[i].cbp].val]
                        /\ Outcome(i).value = CallValue(i)
                  /\ HasOutcome(i) => promises[calls[i].cbp].state # "pending"

\* the promise x returns is pending when x returns
PendingAtReturn ==
    Len(calls') = Len(calls) + 1 =>
        LET c == calls'[Len(calls')]
        IN  (c.api = "x" /\ c.cb.kind \in AsyncKinds) =>
                /\ c.ret[1] = "promise"
                /\ promises'[c.ret[2]].state = "pending"

\* C6: x returns the tuple at once when the callback returns a plain value
\* or raises, and returns a pending promise when the callback returns a
\* promise; the tuple (null, v) is there only after that promise resolved
\* with v.
SyncAsyncTransparency == []TransparentShape /\ [][PendingAtReturn]_vars

\* x was given an already resolved promise and one resolved later, and the
\* tuples of both have arrived
SyncAsyncTransparencyWitness ==
    \E i, j \in CallIds :
        /\ calls[i].api = "x" /\ calls[i].cb.kind = "resolved"
        /\ calls[j].api = "x" /\ calls[j].cb.kind = "resolve"
        /\ HasOutcome(i) /\ HasOutcome(j)

\* ------------------------------------------------------------------- C7
\* equal values; two library-built errors are equal when they are alike
SameValue(a, b) ==
    IF a[1] = "err" /\ b[1] = "err" THEN errors[a[2]] = errors[b[2]] ELSE a = b

\* C7: w(f)(...a) and x(f, ...a) return the same shape, a tuple or a
\* promise, and equal Outcome Tuples, on every call.
WrapEquivalence ==
    \A i, j \in CallIds :
        (/\ calls[i].api = "x" /\ calls[j].api = "w"
         /\ calls[i].cb = calls[j].cb /\ calls[i].params = calls[j].params) =>
            /\ calls[i].how = calls[j].how
            /\ calls[i].ret[1] = calls[j].ret[1]
            /\ (HasOutcome(i) /\ HasOutcome(j)) =>
                  /\ SameValue(Outcome(i).fault, Outcome(j).fault)
                  /\ SameValue(Outcome(i).value, Outcome(j).value)

\* x and a wrapped callable ran the same null-rejecting callback to the end
WrapEquivalenceWitness ==
    \E i, j \in CallIds :
        /\ calls[i].api = "x" /\ calls[j].api = "w"
        /\ calls[i].cb = calls[j].cb /\ calls[i].params = calls[j].params
        /\ calls[i].cb.kind = "reject" /\ CallValue(i) = Null
        /\ HasOutcome(i) /\ HasOutcome(j)

\* ------------------------------------------------------------------- C8
LegacyCalls == {i \in CallIds : calls[i].api \in {"px", "rx", "pw", "rw"}}

\* the callback raised null, or (px and pw await it) its promise rejected
\* with null
LegacyNullFailing(i) ==
    /\ CallValue(i) = Null
    /\ \/ calls[i].cb.kind = "throw"
       \/ calls[i].api \in {"px", "pw"} /\ calls[i].cb.kind \in {"reject", "rejected"}

\* C8: when the callback of px, rx, pw or rw raises null (for px and pw,
\* also when its promise rejects with null), the error entry of the tuple
\* is an instance of NullError.
LegacyNullIsNullError ==
    \A i \in LegacyCalls :
        (LegacyNullFailing(i) /\ HasOutcome(i)) => IsNullError(Outcome(i).fault)

\* ------------------------------------------------------------------- C9
PathOf(i) ==
    CASE calls[i].cb.kind = "return" -> "syncSuccess"
      [] calls[i].cb.kind = "throw" -> "syncFailure"
      [] calls[i].cb.kind \in {"resolve", "resolved"} -> "asyncSuccess"
      [] calls[i].cb.kind \in {"reject", "rejected"} -> "asyncFailure"

\* nothing is left to run for invocation i
Quiet(i) ==
    /\ jobs = <<>>
    /\ IsAsync(i) => promises[calls[i].cbp].state # "pending"

\* C9: an invocation of x or of a wrapped callable fires one of the four
\* paths, the one of its callback's outcome, once; it builds one tuple and
\* that tuple is the one the caller gets; no outcome is dropped.
ExactlyOnce ==
    \A i \in SafeCalls :
        /\ Len(fired[i]) <= 1
        /\ fired[i] # <<>> => fired[i][1].path = PathOf(i)
        /\ HasOutcome(i) =>
              /\ Len(fired[i]) = 1
              /\ OutcomeRef(i) = TupleRef(fired[i][1].tuple)
        /\ Quiet(i) => HasOutcome(i)

\* an asynchronous failure and an asynchronous success, both delivered
ExactlyOnceWitness ==
    \E i, j \in SafeCalls :
        /\ calls[i].cb.kind = "reject" /\ calls[j].cb.kind = "resolve"
        /\ HasOutcome(i) /\ HasOutcome(j)
        /\ fired[i][1].path = "asyncFailure" /\ fired[j][1].path = "asyncSuccess"

\* ------------------------------------------------------------------ C10
\* the tuple the inner layer w(f)(...a) must build
InnerTupleOk(i, t) ==
    /\ Succeeds(i) => t = [fault |-> Null, value |-> CallValue(i)]
    /\ Fails(i) =>
          /\ t.value = Null
          /\ CallValue(i) = Null => IsNullError(t.fault)
          /\ CallValue(i) # Null => t.fault = CallValue(i)

\* C10: w(w(f))(...a) takes the outer layer's success path: its fault slot
\* is null and its value slot is the tuple w(f)(...a) built, at once for a
\* synchronous f and through a promise for an asynchronous one, also when
\* f raises or rejects.
WrapComposition ==
    \A i \in CallIds :
        calls[i].api = "ww" =>
            /\ calls[i].how = "return"
            /\ calls[i].ret[1] = IF IsAsync(i) THEN "promise" ELSE "tuple"
            /\ \A n \in 1..Len(fired[i]) :
                  fired[i][n].depth = 2 =>
                      fired[i][n].path \in {"syncSuccess", "asyncSuccess"}
            /\ HasOutcome(i) =>
                  /\ Outcome(i).fault = Null
                  /\ Outcome(i).value[1] = "tuple"
                  /\ \E n \in 1..Len(fired[i]) :
                        /\ fired[i][n].depth = 1
                        /\ Outcome(i).value = TupleRef(fired[i][n].tuple)
                  /\ InnerTupleOk(i, tuples[Outcome(i).value[2]])

\* f raised an object in one invocation and rejected with null in another
WrapCompositionWitness ==
    \E i, j \in CallIds :
        /\ calls[i].api = "ww" /\ calls[i].cb.kind = "throw"
        /\ CallValue(i) = Obj(1)
        /\ calls[j].api = "ww" /\ calls[j].cb.kind = "reject"
        /\ CallValue(j) = Null
        /\ HasOutcome(i) /\ HasOutcome(j)

\* ------------------------------------------------------------------ C11
\* C11: invocations of x and of wrapped callables that are pending together
\* and whose callbacks settle in any order each resolve to the tuple of
\* their own callback's outcome: a tuple built for that invocation alone,
\* carrying its own value or fault, shared with no other invocation.
ConcurrentIndependence ==
    \A i \in SafeCalls :
        (IsAsync(i) /\ HasOutcome(i)) =>
            /\ InnerTupleOk(i, Outcome(i))
            /\ Len(fired[i]) = 1
            /\ OutcomeRef(i) = TupleRef(fired[i][1].tuple)
            /\ \A j \in SafeCalls \ {i} :
                  /\ calls[j].ret # calls[i].ret
                  /\ HasOutcome(j) => OutcomeRef(j) # OutcomeRef(i)
                  /\ \A n \in 1..Len(fired[j]) :
                        fired[j][n].tuple # OutcomeRef(i)[2]
                  /\ (HasOutcome(j) /\ Outcome(i).fault[1] = "err") =>
                        Outcome(j).fault # Outcome(i).fault

\* two invocations with different values were pending together and the
\* later one settled first: its tuple is the older one
ConcurrentIndependenceWitness ==
    /\ Len(calls) = 2
    /\ calls[1].cb.kind = "resolve" /\ CallValue(1) = Obj(1)
    /\ calls[2].cb.kind = "reject" /\ CallValue(2) = Null
    /\ HasOutcome(1) /\ HasOutcome(2)
    /\ OutcomeRef(2)[2] < OutcomeRef(1)[2]

====
